---- MODULE Spec2Model ----
(***************************************************************************)
(* Model of the Blender operator RandomWalkingSplines                      *)
(* (src/RandomWalkingSplines.py): the seeded random walk that produces the *)
(* vertices of each curve, and execute(), which replaces the children of   *)
(* the empty object named "RandomWalkingSplines" by a new batch of curves. *)
(*                                                                         *)
(* Units.  Coordinates are integers counting tenths, so the initial move   *)
(* vector (0, 0, .1) is <<0, 0, 1>>.  Angles are integers counting quarter *)
(* turns, so every rotation maps the integer lattice to itself and is      *)
(* computed exactly.  prng.random() returns u = n / Resolution for an      *)
(* integer n in 0 .. Resolution-1, which is in [0, 1); the wander bounds   *)
(* are multiples of Resolution quarter turns, so min + u * (max - min) is  *)
(* a whole number of quarter turns.                                        *)
(***************************************************************************)
EXTENDS Integers, Sequences, FiniteSets, TLC

\* ------------------------------------------------------------------ bounds
MaxSeed == 1          \* randomSeed ranges over 0 .. MaxSeed
MaxCurves == 2        \* numCurves ranges over 1 .. MaxCurves
MaxPathLength == 3    \* pathLength ranges over 1 .. MaxPathLength
MaxRuns == 3          \* number of calls of execute in one behaviour
MaxCalls == 2         \* number of direct calls of generate_walking_verts
MaxUserEdits == 2     \* times the user adds an object, sets a parent or selects
Resolution == 4       \* prng.random() takes the values n / Resolution
NumEntropy == 2       \* distinct states an unseeded Random() may start in

\* ------------------------------------------------------- program constants
MinNumCurves == 1
MinPathLength == 1
MinRandomSeed == 0

Seeds == MinRandomSeed .. MaxSeed
CurveCounts == MinNumCurves .. MaxCurves
PathLengths == MinPathLength .. MaxPathLength
\* arguments of a direct call of generate_walking_verts: any integer
CallLengths == (0 - 1) .. MaxPathLength
\* minMove and maxMove, in quarter turns; not ordered
Wanders == {0, Resolution}
\* an unseeded random.Random() starts in a state taken from the operating
\* system: one of the streams -1, -2, ...
Entropy == {0 - e : e \in 1 .. NumEntropy}

\* ------------------------------------------------------------ random.Random
\* The n-th output (n = 0, 1, ...) of the stream selected by seed, as the
\* numerator of u = n / Resolution: a fixed function of (seed, n).
PrngOutput(seed, n) ==
  (((seed + 11) * (seed + 11) * 37 + (n + 1) * (n + 1) * (seed + 13) * 101 + n * 53) % 251)
    % Resolution

\* random.Random(): a new source on a stream of the operating system's
\* choice; seeded counts the calls of seed on it.
NewRandom(e) == [stream |-> e, pos |-> 0, seeded |-> 0]

\* prng.seed(s): restart the source on stream s.
Seed(prng, s) == [stream |-> s, pos |-> 0, seeded |-> prng.seeded + 1]

\* prng.random(): the next output, and the advanced source.
Random(prng) ==
  [u |-> PrngOutput(prng.stream, prng.pos), prng |-> [prng EXCEPT !.pos = @ + 1]]

\* random_range(min, max) = min + (prng.random() * (max - min))
random_range_inclusive(prng, min, max) ==
  LET r == Random(prng)
  IN  [value |-> min + (r.u * (max - min + Resolution)) \div Resolution, prng |-> r.prng]
random_range(prng, min, max) ==
  LET r == Random(prng)
  IN  [value |-> min + (r.u * (max - min)) \div Resolution, prng |-> r.prng]

\* ------------------------------------------------------ mathutils.Vector
Origin == <<0, 0, 0>>
InitialMoveVec == <<0, 0, 1>>

VecAdd(a, b) == <<a[1] + b[1], a[2] + b[2], a[3] + b[3]>>
VecSub(a, b) == <<a[1] - b[1], a[2] - b[2], a[3] - b[3]>>
VecScale(k, a) == <<k * a[1], k * a[2], k * a[3]>>

\* one quarter turn about each axis (right-handed)
QuarterX(v) == <<v[1], 0 - v[3], v[2]>>
QuarterY(v) == <<v[3], v[2], 0 - v[1]>>
QuarterZ(v) == <<0 - v[2], v[1], v[3]>>

RECURSIVE RotX(_, _)
RotX(v, q) == IF q % 4 = 0 THEN v ELSE RotX(QuarterX(v), (q % 4) - 1)
RECURSIVE RotY(_, _)
RotY(v, q) == IF q % 4 = 0 THEN v ELSE RotY(QuarterY(v), (q % 4) - 1)
RECURSIVE RotZ(_, _)
RotZ(v, q) == IF q % 4 = 0 THEN v ELSE RotZ(QuarterZ(v), (q % 4) - 1)

\* moveVec.rotate(Euler((ax, ay, az))): Euler order XYZ, the rotation about
\* X applied first, then about Y, then about Z.
Rotate(v, angles) == RotZ(RotY(RotX(v, angles[1]), angles[2]), angles[3])

\* -------------------------------------------------- generate_walking_verts
\* The walk so far is a record: verts, lastPos, moveVec as in the code, the
\* source prng, and angles, the log of the Euler angles passed to rotate (one
\* triple per step).
\* The body of the loop "for i in range(0, pathLength - 1)": three draws, in
\* the order the tuple is evaluated (X, Y, Z), one rotation, one new vertex.
WalkStepZYX(w, minMove, maxMove) ==
  LET rz == random_range(w.prng, minMove, maxMove)
      ry == random_range(rz.prng, minMove, maxMove)
      rx == random_range(ry.prng, minMove, maxMove)
      euler == <<rx.value, ry.value, rz.value>>
      moveVec == Rotate(w.moveVec, euler)
      lastPos == VecAdd(w.lastPos, moveVec)
  IN  [verts |-> Append(w.verts, lastPos), lastPos |-> lastPos, moveVec |-> moveVec,
       prng |-> rx.prng, angles |-> Append(w.angles, euler)]
WalkStep(w, minMove, maxMove) ==
  LET rx == random_range(w.prng, minMove, maxMove)
      ry == random_range(rx.prng, minMove, maxMove)
      rz == random_range(ry.prng, minMove, maxMove)
      euler == <<rx.value, ry.value, rz.value>>
      moveVec == Rotate(w.moveVec, euler)
      lastPos == VecAdd(w.lastPos, moveVec)
  IN  [verts |-> Append(w.verts, lastPos), lastPos |-> lastPos, moveVec |-> moveVec,
       prng |-> rz.prng, angles |-> Append(w.angles, euler)]

RECURSIVE WalkLoop(_, _, _, _, _)
WalkLoop(i, n, w, minMove, maxMove) ==
  IF i >= n THEN w
  ELSE WalkLoop(i + 1, n, WalkStep(w, minMove, maxMove), minMove, maxMove)

\* The state before the loop: the origin is appended, lastPos and moveVec
\* are set; nothing is drawn.
WalkStartMoved(prng) ==
  [verts |-> <<InitialMoveVec>>, lastPos |-> InitialMoveVec, moveVec |-> InitialMoveVec,
   prng |-> prng, angles |-> <<>>]
WalkStart(prng) ==
  [verts |-> <<Origin>>, lastPos |-> Origin, moveVec |-> InitialMoveVec,
   prng |-> prng, angles |-> <<>>]

\* if pathLength < 1: pathLength = 1
ClampPathLength(pathLength) == IF pathLength < 1 THEN 1 ELSE pathLength

\* generate_walking_verts(pathLength), reading self.prng, self.minMove and
\* self.maxMove; the result holds the returned verts and the source as the
\* call leaves it.
generate_walking_verts_one_more(prng, pathLength, minMove, maxMove) ==
  WalkLoop(0, ClampPathLength(pathLength), WalkStart(prng), minMove, maxMove)
generate_walking_verts(prng, pathLength, minMove, maxMove) ==
  WalkLoop(0, ClampPathLength(pathLength) - 1, WalkStart(prng), minMove, maxMove)

\* ------------------------------------------------------------- the scene
\* bpy.data.objects: a function from object identities to records
\*   name    the object's name (a tuple: base, index and ".00k" suffix parts)
\*   parent  the identity of the parent object, or None
\*   select  the selection flag
\*   points  the control points (x, y, z, w) of the curve's spline; <<>> for
\*           an object without curve data
None == 0
ContainerName == <<"RandomWalkingSplines">>
CurveName(curveCount) == <<"random-walking-curve-", curveCount>>
UserName == <<"Cube">>

\* Blender keeps names unique: a taken name gets the first free suffix.
RECURSIVE FreeSuffix(_, _, _)
FreeSuffix(objs, name, k) ==
  IF \E o \in DOMAIN objs : objs[o].name = Append(name, k)
  THEN FreeSuffix(objs, name, k + 1)
  ELSE Append(name, k)
UniqueName(objs, name) ==
  IF \E o \in DOMAIN objs : objs[o].name = name THEN FreeSuffix(objs, name, 1) ELSE name

\* bpy.data.objects.get(name): the object of that name, or None
ObjectsGet(objs, name) ==
  IF \E o \in DOMAIN objs : objs[o].name = name
  THEN CHOOSE o \in DOMAIN objs : objs[o].name = name
  ELSE None

\* bpy.data.objects.new(name, data) followed by scene.objects.link: a new
\* object id, unselected, without parent
ObjectsNew(objs, id, name, points) ==
  [o \in DOMAIN objs \cup {id} |->
     IF o = id
     THEN [name |-> UniqueName(objs, name), parent |-> None, select |-> FALSE,
           points |-> points]
     ELSE objs[o]]

\* empty.children: the objects whose parent is e
Children(objs, e) == {o \in DOMAIN objs : objs[o].parent = e}

\* bpy.ops.object.select_all(action = "DESELECT")
DeselectNothing(objs) == objs
DeselectAll(objs) == [o \in DOMAIN objs |-> [objs[o] EXCEPT !.select = FALSE]]

\* for child in empty.children: child.select = True
SelectChildren(objs, e) ==
  [o \in DOMAIN objs |->
     IF objs[o].parent = e THEN [objs[o] EXCEPT !.select = TRUE] ELSE objs[o]]

\* bpy.ops.object.delete(): every selected object is removed from the scene
\* and from bpy.data; an object whose parent is removed is left without
\* parent.
Selected(objs) == {o \in DOMAIN objs : objs[o].select}
DeleteSelected(objs) ==
  [o \in DOMAIN objs \ Selected(objs) |->
     IF objs[o].parent \in Selected(objs) THEN [objs[o] EXCEPT !.parent = None] ELSE objs[o]]

\* ------------------------------------------------------- operator state
VARIABLES
  objects,   \* bpy.data.objects, as described above
  active,    \* scene.objects.active
  nextId,    \* the identity the next new object gets
  props,     \* the operator's properties randomSeed .. maxMove
  prng,      \* self.prng
  last,      \* record of the latest call of execute
  ref,       \* record of one earlier successful call, kept for comparison
  walk,      \* record of the latest direct call of generate_walking_verts
  made,      \* number of empties execute has created
  step,      \* the operation that led to this state
  runs, calls, edits   \* counters that bound the behaviour

vars == <<objects, active, nextId, props, prng, last, ref, walk, made, step, runs, calls, edits>>

Props ==
  [randomSeed : Seeds, numCurves : CurveCounts, pathLength : PathLengths,
   minMove : Wanders, maxMove : Wanders]
\* the properties before the first invocation sets them
InitialProps ==
  [randomSeed |-> MinRandomSeed, numCurves |-> MinNumCurves, pathLength |-> MinPathLength,
   minMove |-> 0, maxMove |-> Resolution]
\* the properties of the invocations when the scene is what is examined:
\* every curve count, one walk
SceneProps ==
  {p \in Props : p.randomSeed = MinRandomSeed /\ p.pathLength = MaxPathLength
                 /\ p.minMove = 0 /\ p.maxMove = Resolution}
\* the properties of the invocations when one walk is what is examined:
\* every length and every pair of wander bounds
CallProps == {p \in Props : p.randomSeed = MinRandomSeed /\ p.numCurves = MinNumCurves}
\* the stream a new source starts on when the invocation's own choice is
\* not examined
SomeEntropy == CHOOSE e \in Entropy : TRUE

\* Where a host operation of one run raises: nowhere, or at the creation of
\* the empty, at the deletion of the children, at the creation of curve i,
\* or at the assignment of curve i's parent.
NoFail == [op |-> "none", i |-> 0]
FailPoints ==
  {NoFail, [op |-> "container", i |-> 0], [op |-> "delete", i |-> 0]}
    \cup [op : {"create", "parent"}, i : 0 .. MaxCurves - 1]

\* f with f[k] = v
Put(f, k, v) == [x \in DOMAIN f \cup {k} |-> IF x = k THEN v ELSE f[x]]

\* ----------------------------------------------------------- generate_curve
\* polyline = curveData.splines.new("NURBS") has one point; points.add(n)
\* appends n more; the loop writes (x, y, z, 1) into the first len(verts).
SplinePoints(verts) ==
  [k \in 1 .. Len(verts) + 1 |->
     IF k <= Len(verts) THEN <<verts[k][1], verts[k][2], verts[k][3], 1>>
     ELSE <<0, 0, 0, 0>>]

\* The run state rs of one execute: the scene (objects, active, nextId), the
\* source prng, the locals curveCount and empty, and the log of the run:
\* created (the empty was created), new (the curves created, in order),
\* paths, angles and spans (per curve index: the verts, the Euler angles and
\* the stream positions of its walk), error (a host operation raised).
\* generate_curve(pathLength, curveCount): the walk, then the new object,
\* linked and selected.  A host failure leaves the draws consumed and no
\* object.
generate_curve(rs, pathLength, curveCount, minMove, maxMove, fail) ==
  LET w == generate_walking_verts(rs.prng, pathLength, minMove, maxMove)
      walked == [rs EXCEPT !.prng = w.prng,
                           !.paths = Put(@, curveCount, w.verts),
                           !.angles = Put(@, curveCount, w.angles),
                           !.spans = Put(@, curveCount,
                                         [stream |-> rs.prng.stream, first |-> rs.prng.pos,
                                          after |-> w.prng.pos])]
      id == rs.nextId
      objs == ObjectsNew(rs.objects, id, CurveName(curveCount), SplinePoints(w.verts))
  IN  IF fail = [op |-> "create", i |-> curveCount]
      THEN [walked EXCEPT !.error = TRUE]
      ELSE [walked EXCEPT !.objects = [objs EXCEPT ![id].select = TRUE],
                          !.nextId = id + 1,
                          !.new = Append(@, id)]

\* ------------------------------------------------------------------ execute
\* lines 180-181: create the empty and link it
CreateEmpty(rs, fail) ==
  IF fail.op = "container" THEN [rs EXCEPT !.error = TRUE]
  ELSE [rs EXCEPT !.objects = ObjectsNew(rs.objects, rs.nextId, ContainerName, <<>>),
                  !.nextId = @ + 1, !.empty = rs.nextId, !.created = TRUE]

\* lines 185-190: deselect all, select the children of the empty, delete
DeleteChildrenSkipped(rs, empty, fail) ==
  IF fail.op = "delete"
  THEN [rs EXCEPT !.empty = empty, !.error = TRUE]
  ELSE [rs EXCEPT !.empty = empty]
DeleteChildren(rs, empty, fail) ==
  LET marked == SelectChildren(DeselectAll(rs.objects), empty)
      kept == DeleteSelected(marked)
  IN  IF fail.op = "delete"
      THEN [rs EXCEPT !.objects = marked, !.empty = empty, !.error = TRUE]
      ELSE [rs EXCEPT !.objects = kept, !.empty = empty,
                      !.active = IF rs.active \in DOMAIN kept THEN rs.active ELSE None]

\* lines 176-190: look the empty up by name; create it, or delete its
\* children
FindOrCreateEmptyAlwaysNew(rs, fail) == CreateEmpty(rs, fail)
FindOrCreateEmpty(rs, fail) ==
  LET empty == ObjectsGet(rs.objects, ContainerName)
  IN  IF empty = None THEN CreateEmpty(rs, fail) ELSE DeleteChildren(rs, empty, fail)

\* lines 193-194: select the empty and make it the active object
SelectEmpty(rs) ==
  IF rs.error THEN rs
  ELSE [rs EXCEPT !.objects = [@ EXCEPT ![rs.empty].select = TRUE], !.active = rs.empty]

\* lines 201-203: one round of the loop; an assignment of the parent that
\* raises leaves the new curve in the scene
CurveRoundUndo(rs, p, fail) ==
  LET g == generate_curve(rs, p.pathLength, rs.curveCount, p.minMove, p.maxMove, fail)
      id == g.new[Len(g.new)]
  IN  IF g.error THEN [rs EXCEPT !.prng = g.prng, !.paths = g.paths, !.angles = g.angles,
                                 !.spans = g.spans, !.error = TRUE]
      ELSE IF fail = [op |-> "parent", i |-> rs.curveCount]
           THEN [rs EXCEPT !.prng = g.prng, !.paths = g.paths, !.angles = g.angles,
                           !.spans = g.spans, !.curveCount = @ + 1, !.error = TRUE]
           ELSE [g EXCEPT !.curveCount = @ + 1, !.objects = [@ EXCEPT ![id].parent = rs.empty]]
CurveRound(rs, p, fail) ==
  LET g == generate_curve(rs, p.pathLength, rs.curveCount, p.minMove, p.maxMove, fail)
      id == g.new[Len(g.new)]
  IN  IF g.error THEN g
      ELSE IF fail = [op |-> "parent", i |-> rs.curveCount]
           THEN [g EXCEPT !.curveCount = @ + 1, !.error = TRUE]
           ELSE [g EXCEPT !.curveCount = @ + 1, !.objects = [@ EXCEPT ![id].parent = rs.empty]]

\* lines 199-203: for i in range(0, self.numCurves)
RECURSIVE CurveLoopDescending(_, _, _, _, _)
CurveLoopDescending(i, n, rs, p, fail) ==
  IF rs.error \/ i >= n THEN rs
  ELSE CurveLoopDescending(i + 1, n,
                           CurveRound([rs EXCEPT !.curveCount = n - 1 - i], p, fail), p, fail)
RECURSIVE CurveLoop(_, _, _, _, _)
CurveLoop(i, n, rs, p, fail) ==
  IF rs.error \/ i >= n THEN rs ELSE CurveLoop(i + 1, n, CurveRound(rs, p, fail), p, fail)

\* lines 169-170: a new source, seeded with randomSeed; old is the source
\* the operator held
SeedPrngKeep(old, e, randomSeed) == old
SeedPrng(old, e, randomSeed) == Seed(NewRandom(e), randomSeed)

\* execute(), from the scene and source it finds to the run state it leaves
RunExecute(objs, act, id, old, p, e, fail) ==
  LET rs0 == [objects |-> objs, active |-> act, nextId |-> id,
              prng |-> SeedPrng(old, e, p.randomSeed), curveCount |-> 0,
              empty |-> None, created |-> FALSE, new |-> <<>>, paths |-> <<>>,
              angles |-> <<>>, spans |-> <<>>, error |-> FALSE]
  IN  CurveLoop(0, p.numCurves, SelectEmpty(FindOrCreateEmpty(rs0, fail)), p, fail)

\* the failure point is one this run comes to
FailReached(objs, p, fail) ==
  \/ fail = NoFail
  \/ fail.op = "container" /\ ObjectsGet(objs, ContainerName) = None
  \/ fail.op = "delete" /\ ObjectsGet(objs, ContainerName) # None
  \/ fail.op \in {"create", "parent"} /\ fail.i < p.numCurves

\* last before the first invocation.  Of an invocation it keeps: its
\* properties, how it ended, where the host failed, and of the scene it
\* found: before (each object's parent), selected, found (the result of the
\* lookup of the empty) and kids (the children of the empty).
NoRun ==
  [ran |-> FALSE, params |-> InitialProps, outcome |-> "NONE", fail |-> NoFail,
   before |-> <<>>, selected |-> {}, found |-> None, kids |-> {}, empty |-> None,
   new |-> <<>>, paths |-> <<>>, angles |-> <<>>, spans |-> <<>>, seeded |-> 0,
   draws |-> 0]
NoRef == [set |-> FALSE, at |-> 0, params |-> InitialProps, paths |-> <<>>]
NoWalk == [called |-> FALSE, pathLength |-> 0, minMove |-> 0, maxMove |-> 0,
           verts |-> <<>>, angles |-> <<>>, first |-> 0, after |-> 0]

Init ==
  /\ objects = <<>>
  /\ active = None
  /\ nextId = 1
  /\ props = InitialProps
  /\ prng \in {NewRandom(e) : e \in Entropy}
  /\ last = NoRun
  /\ ref = NoRef
  /\ walk = NoWalk
  /\ made = 0
  /\ step = "init"
  /\ runs = 0
  /\ calls = 0
  /\ edits = 0

\* The operator is invoked with properties p: execute runs to its return or
\* to the host failure, and what it did stays.  pick keeps this invocation
\* in ref.
Execute(p, e, fail, pick) ==
  /\ runs < MaxRuns
  /\ FailReached(objects, p, fail)
  /\ pick => ~ref.set
  /\ \E rs \in {RunExecute(objects, active, nextId, prng, p, e, fail)} :
       /\ objects' = rs.objects
       /\ active' = rs.active
       /\ nextId' = rs.nextId
       /\ props' = p
       /\ prng' = rs.prng
       /\ made' = made + (IF rs.created THEN 1 ELSE 0)
       /\ last' = [ran |-> TRUE, params |-> p,
                   outcome |-> IF rs.error THEN "ERROR" ELSE "FINISHED",
                   fail |-> fail,
                   before |-> [o \in DOMAIN objects |-> objects[o].parent],
                   selected |-> Selected(objects),
                   found |-> ObjectsGet(objects, ContainerName),
                   kids |-> IF ObjectsGet(objects, ContainerName) = None THEN {}
                            ELSE Children(objects, ObjectsGet(objects, ContainerName)),
                   empty |-> rs.empty, new |-> rs.new, paths |-> rs.paths,
                   angles |-> rs.angles, spans |-> rs.spans,
                   seeded |-> rs.prng.seeded, draws |-> rs.prng.pos]
       /\ ref' = IF pick /\ ~rs.error
                 THEN [set |-> TRUE, at |-> runs + 1, params |-> p, paths |-> rs.paths]
                 ELSE ref
  /\ step' = "execute"
  /\ runs' = runs + 1
  /\ UNCHANGED <<walk, calls, edits>>

\* generate_walking_verts(pathLength) called directly on the operator
CallWalk(pathLength) ==
  /\ calls < MaxCalls
  /\ \E w \in {generate_walking_verts(prng, pathLength, props.minMove, props.maxMove)} :
       /\ prng' = w.prng
       /\ walk' = [called |-> TRUE, pathLength |-> pathLength,
                   minMove |-> props.minMove, maxMove |-> props.maxMove,
                   verts |-> w.verts, angles |-> w.angles,
                   first |-> prng.pos, after |-> w.prng.pos]
  /\ step' = "call"
  /\ calls' = calls + 1
  /\ UNCHANGED <<objects, active, nextId, props, last, ref, made, runs, edits>>

\* ------------------------------------------------------------- the user
\* The user's changes are followed while an invocation is still to come, and
\* on the objects that are not curves: the objects the user added and the
\* empty.
\* The user adds an object to the scene; Blender selects it and makes it
\* active.
UserAdd(name) ==
  /\ edits < MaxUserEdits /\ runs < MaxRuns
  /\ objects' = [ObjectsNew(objects, nextId, name, <<>>) EXCEPT ![nextId].select = TRUE]
  /\ active' = nextId
  /\ nextId' = nextId + 1
  /\ step' = "user"
  /\ edits' = edits + 1
  /\ UNCHANGED <<props, prng, last, ref, walk, made, runs, calls>>

RECURSIVE IsAncestor(_, _, _)
IsAncestor(objs, a, o) ==
  IF o = None THEN FALSE
  ELSE IF o = a THEN TRUE
  ELSE IsAncestor(objs, a, objs[o].parent)

\* The user parents o to q, or clears o's parent; no loop of parents.
UserSetParent(o, q) ==
  /\ edits < MaxUserEdits /\ runs < MaxRuns
  /\ o \in DOMAIN objects
  /\ objects[o].points = <<>>
  /\ q \in DOMAIN objects \cup {None}
  /\ objects[o].parent # q
  /\ ~IsAncestor(objects, o, q)
  /\ objects' = [objects EXCEPT ![o].parent = q]
  /\ step' = "user"
  /\ edits' = edits + 1
  /\ UNCHANGED <<active, nextId, props, prng, last, ref, walk, made, runs, calls>>

\* The user selects or deselects o.
UserSelect(o) ==
  /\ edits < MaxUserEdits /\ runs < MaxRuns
  /\ o \in DOMAIN objects
  /\ objects[o].points = <<>>
  /\ objects' = [objects EXCEPT ![o].select = ~@]
  /\ step' = "user"
  /\ edits' = edits + 1
  /\ UNCHANGED <<active, nextId, props, prng, last, ref, walk, made, runs, calls>>

Ids == 1 .. (MaxUserEdits + MaxRuns * (MaxCurves + 1))

\* The scene: invocations that may fail in the host, and the user's changes
\* of the scene between them.  The source is re-seeded before it is read, so
\* one starting stream stands for all here; SpecWalk takes every one.
Next ==
  \/ \E p \in SceneProps, fail \in FailPoints : Execute(p, SomeEntropy, fail, FALSE)
  \/ \E name \in {UserName, ContainerName} : UserAdd(name)
  \/ \E o \in Ids, q \in Ids \cup {None} : UserSetParent(o, q)
  \/ \E o \in Ids : UserSelect(o)

Spec == Init /\ [][Next]_vars

\* The batch: invocations with every combination of properties; one earlier
\* successful invocation is kept in ref for comparison.
NextWalk ==
  \E p \in Props, e \in Entropy, pick \in BOOLEAN : Execute(p, e, NoFail, pick)

SpecWalk == Init /\ [][NextWalk]_vars

\* The walk: invocations with every length and every pair of wander bounds,
\* and direct calls of generate_walking_verts with any integer.
NextCall ==
  \/ \E p \in CallProps : Execute(p, SomeEntropy, NoFail, FALSE)
  \/ \E pathLength \in CallLengths : CallWalk(pathLength)

SpecCall == Init /\ [][NextCall]_vars

\* ------------------------------------------------------------ properties
Range(seq) == {seq[k] : k \in 1 .. Len(seq)}
Containers(objs) == {o \in DOMAIN objs : objs[o].name = ContainerName}
\* this state is the one an invocation of execute left
Executed == step = "execute"
\* ... and the invocation returned {"FINISHED"}
Succeeded == step = "execute" /\ last.outcome = "FINISHED"

\* C1: regenerate replaces, it does not add.  After every invocation that
\* returns, the children of the empty named "RandomWalkingSplines" are
\* exactly the numCurves curves this invocation created: numCurves distinct
\* objects, none of which existed before the invocation, so no child is left
\* from an earlier invocation.
C1_ReplaceNotAdd ==
  Succeeded =>
    /\ last.empty \in Containers(objects)
    /\ Len(last.new) = last.params.numCurves
    /\ Cardinality(Range(last.new)) = last.params.numCurves
    /\ Children(objects, last.empty) = Range(last.new)
    /\ Range(last.new) \cap DOMAIN last.before = {}

\* C1 witness: a successful invocation that found two children under the
\* empty and was asked for one curve.
C1_Witness ==
  /\ Succeeded
  /\ runs >= 2
  /\ Cardinality(last.kids) = 2
  /\ last.params.numCurves = 1

\* C7 as claimed, in a consequence of it: after an invocation that returns
\* there is exactly one object named "RandomWalkingSplines", execute created
\* it, and every curve of the batch has it as parent.
C7_ContainerAsClaimed ==
  Succeeded =>
    /\ Containers(objects) = {last.empty}
    /\ made = 1
    /\ \A o \in Range(last.new) : objects[o].parent = last.empty

\* C7 as amended: the empty is created only when no object has its name, and
\* an object that has it, whoever put it in the scene, is kept and used.
\* There is never more than one object of that name, execute creates one at
\* most once in a behaviour, an invocation that finds one uses it and leaves
\* it in the scene, an invocation that finds none creates a new object, and
\* every curve of a successful invocation has the empty as parent.
C7_ContainerReuse ==
  /\ Cardinality(Containers(objects)) <= 1
  /\ made <= 1
  /\ made = 1 => Containers(objects) # {}
  /\ Executed =>
       /\ last.found # None =>
            last.empty = last.found /\ Containers(objects) = {last.found}
       /\ last.found = None /\ last.fail.op # "container" =>
            last.empty \notin DOMAIN last.before /\ Containers(objects) = {last.empty}
       /\ last.found = None /\ last.fail.op = "container" => Containers(objects) = {}
       /\ last.outcome = "FINISHED" =>
            \A o \in Range(last.new) : objects[o].parent = last.empty

\* C7 witness: a successful invocation, not the first, that found the empty
\* an earlier invocation created, with children, and put its two curves
\* under it.
C7_Witness ==
  /\ Succeeded
  /\ runs >= 2
  /\ made = 1
  /\ last.found # None
  /\ last.kids # {}
  /\ Cardinality(Children(objects, last.found)) = 2

C10_FrameAsClaimed ==
  Executed =>
    /\ DOMAIN last.before \ DOMAIN objects \subseteq last.kids
    /\ \A o \in DOMAIN last.before \ last.kids :
         o \in DOMAIN objects /\ objects[o].parent = last.before[o]
    /\ last.found = None => DOMAIN last.before \subseteq DOMAIN objects

\* C10 as amended: an invocation deletes only children of the empty, and
\* every object that was not a child of the empty when it started exists
\* afterwards, with the parent it had, or without parent if its parent was a
\* child of the empty that the invocation deleted; with no empty beforehand
\* nothing is deleted and no parent changes.
C10_FrameAmended ==
  Executed =>
    /\ DOMAIN last.before \ DOMAIN objects \subseteq last.kids
    /\ \A o \in DOMAIN last.before \ last.kids :
         /\ o \in DOMAIN objects
         /\ \/ objects[o].parent = last.before[o]
            \/ /\ last.before[o] \in last.kids \ DOMAIN objects
               /\ objects[o].parent = None
    /\ last.found = None =>
         \A o \in DOMAIN last.before :
           o \in DOMAIN objects /\ objects[o].parent = last.before[o]

\* C10 witness: an invocation deleted the children of the empty while an
\* object the user had selected, parented to one of those children, was in
\* the scene; the object is still there, without parent.
C10_Witness ==
  /\ Executed
  /\ last.kids # {}
  /\ last.kids \cap DOMAIN objects = {}
  /\ \E o \in DOMAIN last.before \ last.kids :
       /\ o \in last.selected
       /\ last.before[o] \in last.kids
       /\ o \in DOMAIN objects
       /\ objects[o].parent = None

\* C2: determinism.  An invocation that returns with the properties of an
\* earlier one produces the same verts for every curve index, whatever
\* happened before either.
C2_Determinism ==
  ref.set /\ last.outcome = "FINISHED" /\ ref.params = last.params =>
    ref.paths = last.paths

\* C2 witness: the first and the third invocation have the same properties,
\* two curves of three points, and wander bounds that differ.
C2_Witness ==
  /\ ref.set /\ ref.at = 1 /\ runs >= 3
  /\ Succeeded
  /\ ref.params = last.params
  /\ last.params.numCurves >= 2
  /\ last.params.pathLength >= 3
  /\ last.params.minMove # last.params.maxMove

\* C3: stream continuity.  Two invocations with the same seed, pathLength and
\* wander bounds produce the same verts for every curve index both have.
C3_PrefixStability ==
  /\ ref.set /\ last.outcome = "FINISHED"
  /\ ref.params.randomSeed = last.params.randomSeed
  /\ ref.params.pathLength = last.params.pathLength
  /\ ref.params.minMove = last.params.minMove
  /\ ref.params.maxMove = last.params.maxMove
  => \A c \in DOMAIN ref.paths \cap DOMAIN last.paths : ref.paths[c] = last.paths[c]

\* C3 witness: an invocation with one curve and a later one with two, the
\* other properties equal; curve 1 of the later one starts where curve 0
\* stopped in the stream and differs from curve 0.
C3_Witness ==
  /\ ref.set /\ Succeeded
  /\ ref.params.numCurves = 1 /\ last.params.numCurves = 2
  /\ ref.params = [last.params EXCEPT !.numCurves = 1]
  /\ last.params.pathLength >= 3
  /\ last.spans[1].first = last.spans[0].after
  /\ last.paths[1] # last.paths[0]

\* the angle random_range returns for the n-th output of the seeded stream
AngleOfDraw(p, n) ==
  p.minMove + (PrngOutput(p.randomSeed, n) * (p.maxMove - p.minMove)) \div Resolution

\* C9: one shared stream, consumed in fixed order.  In an invocation that
\* returns, the source was seeded once; curve c read the outputs
\* 3*(pathLength-1)*c .. 3*(pathLength-1)*(c+1) - 1 of the stream of
\* randomSeed, three per step and in the order X, Y, Z; the invocation read
\* 3*(pathLength-1)*numCurves outputs in all.
C9_SharedStream ==
  Succeeded =>
    LET p == last.params
        per == 3 * (p.pathLength - 1)
    IN  /\ last.seeded = 1
        /\ last.draws = per * p.numCurves
        /\ DOMAIN last.spans = 0 .. p.numCurves - 1
        /\ \A c \in 0 .. p.numCurves - 1 :
             /\ last.spans[c] =
                  [stream |-> p.randomSeed, first |-> per * c, after |-> per * (c + 1)]
             /\ Len(last.angles[c]) = p.pathLength - 1
             /\ \A k \in 1 .. p.pathLength - 1 :
                  last.angles[c][k] =
                    <<AngleOfDraw(p, per * c + 3 * (k - 1)),
                      AngleOfDraw(p, per * c + 3 * (k - 1) + 1),
                      AngleOfDraw(p, per * c + 3 * (k - 1) + 2)>>

\* C9 witness: a second invocation with two curves of three points and
\* wander bounds that differ.
C9_Witness ==
  /\ Succeeded
  /\ runs >= 2
  /\ last.params.numCurves = 2
  /\ last.params.pathLength = 3
  /\ last.params.minMove # last.params.maxMove
  /\ last.draws = 12

\* C6: step length.  With minMove = maxMove = 0 every step of every curve is
\* the initial move vector, so point k is k times that vector, for every
\* seed and curve index.
C6_StepLength ==
  Succeeded /\ last.params.minMove = 0 /\ last.params.maxMove = 0 =>
    \A c \in DOMAIN last.paths :
      \A k \in 1 .. Len(last.paths[c]) - 1 :
        /\ VecSub(last.paths[c][k + 1], last.paths[c][k]) = InitialMoveVec
        /\ last.paths[c][k + 1] = VecScale(k, InitialMoveVec)

\* C6 witness: an invocation with zero wander bounds, the largest seed, two
\* curves of three points.
C6_Witness ==
  /\ Succeeded
  /\ last.params.minMove = 0 /\ last.params.maxMove = 0
  /\ last.params.randomSeed = MaxSeed
  /\ last.params.numCurves = 2
  /\ last.params.pathLength = 3
  /\ last.paths[1][3] = <<0, 0, 2>>

\* C4: length.  generate_walking_verts(pathLength) returns max(pathLength, 1)
\* points, and every curve index of an invocation that returns has a path
\* of pathLength points.
C4_Length ==
  /\ walk.called =>
       Len(walk.verts) = IF walk.pathLength < 1 THEN 1 ELSE walk.pathLength
  /\ last.outcome = "FINISHED" =>
       /\ DOMAIN last.paths = 0 .. last.params.numCurves - 1
       /\ \A c \in DOMAIN last.paths : Len(last.paths[c]) = last.params.pathLength

\* C4 witness: a direct call with a pathLength below 1, after an invocation
\* with the largest pathLength.
C4_Witness ==
  /\ walk.called /\ walk.pathLength < 1 /\ Len(walk.verts) = 1
  /\ last.outcome = "FINISHED" /\ last.params.pathLength = MaxPathLength

\* C5: first point.  Point 0 of every path is the origin and is emitted
\* before anything is drawn: a walk of n points reads 3*(n-1) outputs, and a
\* pathLength of 1 or less gives the path [(0,0,0)] and reads none.
C5_FirstPoint ==
  /\ walk.called =>
       /\ walk.verts[1] = Origin
       /\ walk.after - walk.first = 3 * (Len(walk.verts) - 1)
       /\ walk.pathLength <= 1 => walk.verts = <<Origin>> /\ walk.after = walk.first
  /\ last.outcome = "FINISHED" =>
       \A c \in DOMAIN last.paths :
         /\ last.paths[c][1] = Origin
         /\ last.params.pathLength = 1 => last.paths[c] = <<Origin>>

\* C5 witness: a direct call with pathLength 1 and wander bounds that differ,
\* on a source an invocation has read from.
C5_Witness ==
  /\ walk.called /\ walk.pathLength = 1
  /\ walk.minMove # walk.maxMove
  /\ walk.first > 0
  /\ walk.verts = <<Origin>>

====
